---- MODULE Spec2Model ----
(***************************************************************************)
(* Book browsing widget (scripts.js): a paginated, filterable list of book *)
(* previews over an in-memory dataset, a detail overlay and a day/night    *)
(* theme.  The state is the two module-level variables (page, matches)     *)
(* and the properties of the document elements the handlers write.  Every  *)
(* handler runs to completion, so each one is a single action.             *)
(***************************************************************************)
EXTENDS Integers, Sequences, FiniteSets, TLC

(* ------------------------------ bounds --------------------------------- *)

\* Largest dataset the model draws (the dataset is any prefix of the sample).
MaxBooks == 5

\* Page size.  data.js sets the shipped value; the model scales it down.
BOOKS_PER_PAGE == 2

\* Longest text typed into the title field of the search form.
MaxTitleLen == 2

(* ------------------------------ strings -------------------------------- *)
\* Text that the code inspects character by character (titles) is a sequence
\* of one-character strings.

Min(a, b) == IF a <= b THEN a ELSE b

Max(a, b) == IF a >= b THEN a ELSE b

\* String.prototype.toLowerCase on one character of the model's alphabet.
LowerChar(c) ==
    CASE c = "A" -> "a"
      [] c = "B" -> "b"
      [] OTHER -> c

toLowerCase(s) == [i \in 1..Len(s) |-> LowerChar(s[i])]

IsWhiteSpace(c) == c = " "

\* String.prototype.trim: drops white space at both ends.
RECURSIVE trimStart(_)
trimStart(s) ==
    IF s # <<>> /\ IsWhiteSpace(Head(s)) THEN trimStart(Tail(s)) ELSE s

RECURSIVE trimEnd(_)
trimEnd(s) ==
    IF s # <<>> /\ IsWhiteSpace(s[Len(s)])
    THEN trimEnd(SubSeq(s, 1, Len(s) - 1))
    ELSE s

trim(s) == trimEnd(trimStart(s))

\* String.prototype.includes: sub occurs in s as a contiguous run.
StringIncludes(s, sub) ==
    \E k \in 0..(Len(s) - Len(sub)) : SubSeq(s, k + 1, k + Len(sub)) = sub

\* Array.prototype.includes.
ArrayIncludes(arr, x) == \E i \in 1..Len(arr) : arr[i] = x

\* Mutation of slice: the end index is taken inclusive.
sliceInclusive(arr, start, end) ==
    IF start >= Min(end + 1, Len(arr))
    THEN <<>>
    ELSE SubSeq(arr, start + 1, Min(end + 1, Len(arr)))

\* Array.prototype.slice(start, end) for 0 <= start <= end.
slice(arr, start, end) ==
    IF start >= Min(end, Len(arr))
    THEN <<>>
    ELSE SubSeq(arr, start + 1, Min(end, Len(arr)))

(* ------------------------------ dataset -------------------------------- *)
\* A sample of the imported dataset: unique ids, titles in mixed case and with
\* inner and leading blanks, two authors, genre lists of length 0 to 2.

TitlePool ==
    << <<"A", "b">>, <<"a", " ", "B">>, <<"b", "A">>,
       <<"B", "b">>, <<" ", "a">>, <<"B">> >>

AuthorPool == <<"au1", "au2", "au1", "au2", "au2", "au1">>

GenrePool ==
    << <<"g1">>, <<"g1", "g2">>, <<"g1">>, <<>>, <<"g2", "g1">>, <<"g1">> >>

Pick(pool, i) == pool[((i - 1) % Len(pool)) + 1]

Book(i) ==
    [id          |-> "id" \o ToString(i),
     title       |-> Pick(TitlePool, i),
     author      |-> Pick(AuthorPool, i),
     image       |-> "img" \o ToString(i),
     description |-> "desc" \o ToString(i),
     published   |-> [year |-> 1990 + i, month |-> 1 + (i % 12)],
     genres      |-> Pick(GenrePool, i)]

Dataset(n) == [i \in 1..n |-> Book(i)]

authors == [a \in {"au1", "au2"} |-> IF a = "au1" THEN "Ann" ELSE "Bob"]

genres == [g \in {"g1", "g2"} |-> IF g = "g1" THEN "Fantasy" ELSE "Science"]

\* Date.prototype.getFullYear of the publication date.
getFullYear(date) == date.year

(* --------------------------- event inputs ------------------------------ *)

TitleChars == {"a", "A", " "}

RECURSIVE Texts(_)
Texts(n) ==
    IF n = 0
    THEN {<<>>}
    ELSE LET shorter == Texts(n - 1)
         IN  shorter \cup {Append(t, c) : t \in shorter, c \in TitleChars}

\* What the search form can submit: free text, and one option of each
\* dropdown (createOptions puts 'any' before the mapping's keys).
SearchInputs ==
    [title : Texts(MaxTitleLen),
     genre : {"any"} \cup DOMAIN genres,
     author : {"any"} \cup DOMAIN authors]

\* The submissions the full specification draws: no title or one letter in
\* the case the dataset's titles do not all use, with every genre and author
\* option.  SearchSpec below draws all of SearchInputs.
SearchSample == {f \in SearchInputs : f.title \in {<<>>, <<"A">>}}

Themes == {"day", "night"}

\* The data-preview value found on the click's composed path; NoToken when
\* no node of the path carries one.  The ids drawn are those of the first
\* and the last book of the sample and one that no dataset holds.
NoToken == "undefined"

ClickTokens ==
    {Book(1).id, Book(MaxBooks).id, Book(MaxBooks + 1).id, NoToken}

(* ------------------------------- state --------------------------------- *)

VARIABLES
    books,               \* the imported dataset, read-only after start
    page,                \* let page
    matches,             \* let matches
    listItems,           \* children of [data-list-items]: the previews
    listButton,          \* [data-list-button]: disabled flag, remaining text
    listMessageShow,     \* [data-list-message] has class list__message_show
    searchOverlayOpen,   \* [data-search-overlay].open
    settingsOverlayOpen, \* [data-settings-overlay].open
    listActive,          \* [data-list-active] and the detail fields in it
    settingsTheme,       \* [data-settings-theme].value
    colorDark,           \* --color-dark on the document element
    colorLight,          \* --color-light on the document element
    event                \* the handler that ran last, with its locals

vars ==
    <<books, page, matches, listItems, listButton, listMessageShow,
      searchOverlayOpen, settingsOverlayOpen, listActive, settingsTheme,
      colorDark, colorLight, event>>

listVars == <<page, matches, listItems, listButton, listMessageShow>>

themeVars == <<settingsTheme, colorDark, colorLight>>

(* ------------------------------ rendering ------------------------------ *)

\* One preview button per book: data-preview, cover, title, author name.
createBookPreviews(bs, authorNames) ==
    [i \in 1..Len(bs) |->
        [preview |-> bs[i].id,
         image   |-> bs[i].image,
         title   |-> bs[i].title,
         author  |-> authorNames[bs[i].author]]]

\* Mutation of appendElements: the new elements go before the children.
prependElements(children, elements) == elements \o children

\* Mutation of appendElements: the new elements replace the children.
replaceElements(children, elements) == elements

\* appendChild of every element, in order, after the existing children.
appendElements(children, elements) == children \o elements

\* Mutation of applyTheme: the light token is not swapped with the dark one.
applyThemeUnswapped(prefersDarkScheme) ==
    LET theme == IF prefersDarkScheme THEN "night" ELSE "day"
    IN  [value      |-> theme,
         colorDark  |-> IF theme = "night" THEN "255, 255, 255" ELSE "10, 10, 20",
         colorLight |-> IF theme = "night" THEN "255, 255, 255" ELSE "10, 10, 20"]

\* The theme is derived from the media query alone: whatever value the
\* theme control held before the call is overwritten.
applyTheme(prefersDarkScheme) ==
    LET theme == IF prefersDarkScheme THEN "night" ELSE "day"
    IN  [value      |-> theme,
         colorDark  |-> IF theme = "night" THEN "255, 255, 255" ELSE "10, 10, 20",
         colorLight |-> IF theme = "night" THEN "10, 10, 20" ELSE "255, 255, 255"]

\* The text set into the show-more button; <<>> while none has been set.
buttonHTML(count) == <<count>>

\* The show-more button as handleSearch leaves it.
searchButton(found) ==
    [disabled  |-> Len(found) <= BOOKS_PER_PAGE,
     remaining |-> buttonHTML(Max(Len(found) - BOOKS_PER_PAGE, 0))]

\* Mutation of showMoreButton: < for <=.
showMoreButtonStrict(found, end) ==
    [disabled  |-> Len(found) < end,
     remaining |-> buttonHTML(Max(Len(found) - end, 0))]

\* Mutation of showMoreButton: the remaining count is not clamped at 0.
showMoreButtonNoClamp(found, end) ==
    [disabled  |-> Len(found) <= end,
     remaining |-> buttonHTML(Len(found) - end)]

\* The show-more button as handleShowMore leaves it.
showMoreButton(found, end) ==
    [disabled  |-> Len(found) <= end,
     remaining |-> buttonHTML(Max(Len(found) - end, 0))]

\* Mutation of listMessage: <= 1 for < 1.
listMessageOffByOne(found) == Len(found) <= 1

\* Whether handleSearch leaves list__message_show on the message: the class
\* is added for no match and removed otherwise.
listMessage(found) == Len(found) < 1

\* The detail overlay before any book was opened (closed, fields empty).
EmptyDetail ==
    [open |-> FALSE, blur |-> "", image |-> "", title |-> <<>>,
     subtitle |-> <<>>, description |-> ""]

(* ------------------------------- filter -------------------------------- *)

genreMatch(book, filters) ==
    filters.genre = "any" \/ ArrayIncludes(book.genres, filters.genre)

\* Mutation of titleMatch: the typed text is not lower-cased.
titleMatchTypedCase(book, filters) ==
    \/ trim(filters.title) = <<>>
    \/ StringIncludes(toLowerCase(book.title), filters.title)

titleMatch(book, filters) ==
    \/ trim(filters.title) = <<>>
    \/ StringIncludes(toLowerCase(book.title), toLowerCase(filters.title))

authorMatch(book, filters) ==
    filters.author = "any" \/ book.author = filters.author

\* Mutation of filterBooks: each match is put behind the later ones.
RECURSIVE filterBooksReversed(_, _)
filterBooksReversed(bs, filters) ==
    IF bs = <<>>
    THEN <<>>
    ELSE LET book == Head(bs)
             rest == filterBooksReversed(Tail(bs), filters)
         IN  IF genreMatch(book, filters) /\ titleMatch(book, filters)
                    /\ authorMatch(book, filters)
             THEN rest \o <<book>>
             ELSE rest

\* books.filter(...): keeps the matching books in dataset order.
RECURSIVE filterBooks(_, _)
filterBooks(bs, filters) ==
    IF bs = <<>>
    THEN <<>>
    ELSE LET book == Head(bs)
             rest == filterBooks(Tail(bs), filters)
         IN  IF genreMatch(book, filters) /\ titleMatch(book, filters)
                    /\ authorMatch(book, filters)
             THEN <<book>> \o rest
             ELSE rest

\* Mutation of findBook: the search runs over the match set.
findMatch(bs, active) ==
    IF \E i \in 1..Len(matches) : matches[i].id = active
    THEN <<matches[CHOOSE i \in 1..Len(matches) : matches[i].id = active]>>
    ELSE <<>>

\* books.find(book => book.id === active): the first hit, or <<>> for none.
findBook(bs, active) ==
    IF \E i \in 1..Len(bs) : bs[i].id = active
    THEN <<bs[CHOOSE i \in 1..Len(bs) :
                /\ bs[i].id = active
                /\ \A j \in 1..(i - 1) : bs[j].id # active]>>
    ELSE <<>>

(* --------------------------- initialization ---------------------------- *)

\* initialize(): the first page of previews is appended to the empty list
\* and the theme applied.  Nothing here touches the show-more button, the
\* message or the overlays, which keep the defaults of their elements.
Init ==
    \E n \in 0..MaxBooks, prefersDarkScheme \in BOOLEAN :
        LET initialPreviews ==
                createBookPreviews(slice(Dataset(n), 0, BOOKS_PER_PAGE), authors)
            applied == applyTheme(prefersDarkScheme)
        IN  /\ books = Dataset(n)
            /\ page = 1
            /\ matches = Dataset(n)
            /\ listItems = appendElements(<<>>, initialPreviews)
            /\ listButton = [disabled |-> FALSE, remaining |-> <<>>]
            /\ listMessageShow = FALSE
            /\ searchOverlayOpen = FALSE
            /\ settingsOverlayOpen = FALSE
            /\ listActive = EmptyDetail
            /\ settingsTheme = applied.value
            /\ colorDark = applied.colorDark
            /\ colorLight = applied.colorLight
            /\ event = [type |-> "initialize",
                        prefersDarkScheme |-> prefersDarkScheme]

(* ------------------------------ listeners ------------------------------ *)

SearchCancel ==
    /\ searchOverlayOpen' = FALSE
    /\ event' = [type |-> "searchCancel"]
    /\ UNCHANGED <<books, listVars, settingsOverlayOpen, listActive, themeVars>>

SettingsCancel ==
    /\ settingsOverlayOpen' = FALSE
    /\ event' = [type |-> "settingsCancel"]
    /\ UNCHANGED <<books, listVars, searchOverlayOpen, listActive, themeVars>>

HeaderSearch ==
    /\ searchOverlayOpen' = TRUE
    /\ event' = [type |-> "headerSearch"]
    /\ UNCHANGED <<books, listVars, settingsOverlayOpen, listActive, themeVars>>

HeaderSettings ==
    /\ settingsOverlayOpen' = TRUE
    /\ event' = [type |-> "headerSettings"]
    /\ UNCHANGED <<books, listVars, searchOverlayOpen, listActive, themeVars>>

ListClose ==
    /\ listActive' = [listActive EXCEPT !.open = FALSE]
    /\ event' = [type |-> "listClose"]
    /\ UNCHANGED <<books, listVars, searchOverlayOpen, settingsOverlayOpen,
                   themeVars>>

\* Mutation of SettingsSubmit: applyTheme() is not called, so only the
\* control is written.
SettingsSubmitControlOnly(theme, prefersDarkScheme) ==
    /\ settingsTheme' = theme
    /\ settingsOverlayOpen' = FALSE
    /\ event' = [type |-> "settingsSubmit", theme |-> theme,
                 prefersDarkScheme |-> prefersDarkScheme]
    /\ UNCHANGED <<books, listVars, searchOverlayOpen, listActive,
                   colorDark, colorLight>>

\* The submitted theme is written to the control, then applyTheme() runs and
\* writes the control again from the media query.
SettingsSubmit(theme, prefersDarkScheme) ==
    LET written == theme
        applied == applyTheme(prefersDarkScheme)
    IN  /\ settingsTheme' = applied.value
        /\ colorDark' = applied.colorDark
        /\ colorLight' = applied.colorLight
        /\ settingsOverlayOpen' = FALSE
        /\ event' = [type |-> "settingsSubmit", theme |-> written,
                     prefersDarkScheme |-> prefersDarkScheme]
        /\ UNCHANGED <<books, listVars, searchOverlayOpen, listActive>>

(* ------------------------------- handlers ------------------------------ *)

\* Mutation of handleSearch: the list is not emptied before the append.
handleSearchKeepList(filters) ==
    LET found == filterBooks(books, filters)
        newItems == createBookPreviews(slice(found, 0, BOOKS_PER_PAGE), authors)
    IN  /\ matches' = found
        /\ page' = 1
        /\ listItems' = appendElements(listItems, newItems)
        /\ listButton' = searchButton(found)
        /\ listMessageShow' = listMessage(found)
        /\ searchOverlayOpen' = FALSE
        /\ event' = [type |-> "search", filters |-> filters,
                     newItems |-> newItems]
        /\ UNCHANGED <<books, settingsOverlayOpen, listActive, themeVars>>

\* Mutation of handleSearch: page keeps its value.
handleSearchKeepPage(filters) ==
    LET found == filterBooks(books, filters)
        newItems == createBookPreviews(slice(found, 0, BOOKS_PER_PAGE), authors)
    IN  /\ matches' = found
        /\ page' = page
        /\ listItems' = appendElements(<<>>, newItems)
        /\ listButton' = searchButton(found)
        /\ listMessageShow' = listMessage(found)
        /\ searchOverlayOpen' = FALSE
        /\ event' = [type |-> "search", filters |-> filters,
                     newItems |-> newItems]
        /\ UNCHANGED <<books, settingsOverlayOpen, listActive, themeVars>>

handleSearch(filters) ==
    LET found == filterBooks(books, filters)
        newItems == createBookPreviews(slice(found, 0, BOOKS_PER_PAGE), authors)
    IN  /\ matches' = found
        /\ page' = 1
        /\ listItems' = appendElements(<<>>, newItems)
        /\ listButton' = searchButton(found)
        /\ listMessageShow' = listMessage(found)
        /\ searchOverlayOpen' = FALSE
        /\ event' = [type |-> "search", filters |-> filters,
                     newItems |-> newItems]
        /\ UNCHANGED <<books, settingsOverlayOpen, listActive, themeVars>>

\* A disabled button dispatches no click, hence the guard.
handleShowMore ==
    LET start == page * BOOKS_PER_PAGE
        end == (page + 1) * BOOKS_PER_PAGE
        newItems == createBookPreviews(slice(matches, start, end), authors)
    IN  /\ ~listButton.disabled
        /\ listItems' = appendElements(listItems, newItems)
        /\ page' = page + 1
        /\ listButton' = showMoreButton(matches, end)
        /\ event' = [type |-> "showMore", newItems |-> newItems]
        /\ UNCHANGED <<books, matches, listMessageShow, searchOverlayOpen,
                       settingsOverlayOpen, listActive, themeVars>>

\* Mutation of handleBookClick: the overlay is opened before the lookup's
\* result is tested.
handleBookClickOpensFirst(active) ==
    LET book == findBook(books, active)
    IN  /\ IF book # <<>>
           THEN listActive' =
                   [open        |-> TRUE,
                    blur        |-> book[1].image,
                    image       |-> book[1].image,
                    title       |-> book[1].title,
                    subtitle    |-> <<authors[book[1].author],
                                      getFullYear(book[1].published)>>,
                    description |-> book[1].description]
           ELSE listActive' = [listActive EXCEPT !.open = TRUE]
        /\ event' = [type |-> "bookClick", active |-> active]
        /\ UNCHANGED <<books, listVars, searchOverlayOpen, settingsOverlayOpen,
                       themeVars>>

handleBookClick(active) ==
    LET book == findBook(books, active)
    IN  /\ IF book # <<>>
           THEN listActive' =
                   [open        |-> TRUE,
                    blur        |-> book[1].image,
                    image       |-> book[1].image,
                    title       |-> book[1].title,
                    subtitle    |-> <<authors[book[1].author],
                                      getFullYear(book[1].published)>>,
                    description |-> book[1].description]
           ELSE UNCHANGED listActive
        /\ event' = [type |-> "bookClick", active |-> active]
        /\ UNCHANGED <<books, listVars, searchOverlayOpen, settingsOverlayOpen,
                       themeVars>>

(* ---------------------------- specification ---------------------------- *)

Next ==
    \/ SearchCancel
    \/ SettingsCancel
    \/ HeaderSearch
    \/ HeaderSettings
    \/ ListClose
    \/ \E theme \in Themes, prefersDarkScheme \in BOOLEAN :
          SettingsSubmit(theme, prefersDarkScheme)
    \/ \E filters \in SearchSample : handleSearch(filters)
    \/ handleShowMore
    \/ \E active \in ClickTokens : handleBookClick(active)

Spec == Init /\ [][Next]_vars

\* The search form alone, on the largest dataset, with every input.
SearchInit == Init /\ Len(books) = MaxBooks

SearchNext == \E filters \in SearchInputs : handleSearch(filters)

SearchSpec == SearchInit /\ [][SearchNext]_vars

(* ------------------------- stating the claims -------------------------- *)
\* The vocabulary of the claims, written without the handlers' operators.

\* Two characters that are the same letter in either case, or equal.
SameLetter(c, d) ==
    \/ c = d
    \/ {c, d} = {"a", "A"}
    \/ {c, d} = {"b", "B"}

ContainsIgnoringCase(text, part) ==
    \E k \in 0..(Len(text) - Len(part)) :
        \A i \in 1..Len(part) : SameLetter(text[k + i], part[i])

EmptyAfterTrim(text) == \A i \in 1..Len(text) : text[i] = " "

Satisfies(b, C) ==
    /\ C.genre = "any" \/ C.genre \in {b.genres[i] : i \in 1..Len(b.genres)}
    /\ EmptyAfterTrim(C.title) \/ ContainsIgnoringCase(b.title, C.title)
    /\ C.author = "any" \/ b.author = C.author

\* s can be obtained from t by deleting elements (order kept).
RECURSIVE IsSubsequence(_, _)
IsSubsequence(s, t) ==
    IF s = <<>> THEN TRUE
    ELSE IF t = <<>> THEN FALSE
    ELSE IF Head(s) = Head(t) THEN IsSubsequence(Tail(s), Tail(t))
    ELSE IsSubsequence(s, Tail(t))

\* The previews in items show exactly the match-set entries from..to, in order.
ShowsRange(items, from, to) ==
    /\ Len(items) = Max(to - from + 1, 0)
    /\ \A k \in 1..Len(items) :
          /\ items[k].preview = matches[from + k - 1].id
          /\ items[k].title = matches[from + k - 1].title

Revealed == Min(page * BOOKS_PER_PAGE, Len(matches))

InDataset(x) == \E i \in 1..Len(books) : books[i].id = x

InMatches(x) == \E j \in 1..Len(matches) : matches[j].id = x

(* C1: after a settings submit that selects theme T, the theme control and *)
(* the two color tokens are those of T, whatever the dark-mode signal.     *)
C1_SelectedThemeApplied ==
    event.type = "settingsSubmit" =>
        /\ settingsTheme = event.theme
        /\ colorDark =
              (IF event.theme = "night" THEN "255, 255, 255" ELSE "10, 10, 20")
        /\ colorLight =
              (IF event.theme = "night" THEN "10, 10, 20" ELSE "255, 255, 255")

(* C2: after a search submit with criteria C the match set is exactly the  *)
(* books of the dataset that satisfy the genre, title and author           *)
(* predicates of C, and the list shows the first BOOKS_PER_PAGE of them.   *)
C2_ExactMatchSet ==
    event.type = "search" =>
        /\ \A i \in 1..Len(books) :
              Satisfies(books[i], event.filters) <=> InMatches(books[i].id)
        /\ \A j \in 1..Len(matches) :
              \E i \in 1..Len(books) : books[i] = matches[j]
        /\ ShowsRange(listItems, 1, Min(BOOKS_PER_PAGE, Len(matches)))

\* A title typed in capitals with a blank in front, matched against the
\* lower-case title of the one book that has the blank.
C2_Witness ==
    /\ event.type = "search"
    /\ event.filters = [title |-> <<" ", "A">>, genre |-> "g2", author |-> "any"]
    /\ Len(matches) = 1
    /\ matches[1].title = <<" ", "a">>
    /\ Len(listItems) = 1

(* C3: in every reachable state the number of previews in the list is      *)
(* min(page * BOOKS_PER_PAGE, |match set|).                                *)
C3_RenderedCount == Len(listItems) = Revealed

\* The last, partial page has been revealed.
C3_Witness ==
    /\ event.type = "showMore"
    /\ page >= 3
    /\ Len(listItems) = Len(matches)
    /\ Len(matches) < page * BOOKS_PER_PAGE
    /\ Len(matches) > (page - 1) * BOOKS_PER_PAGE

(* C4: in every reachable state the match set is a subsequence of the      *)
(* dataset in the dataset's order.                                         *)
C4_MatchesSubsequence == IsSubsequence(matches, books)

\* A filtered match set that skips a book between two it keeps.
C4_Witness ==
    /\ event.type = "search"
    /\ Len(matches) >= 2
    /\ Len(books) >= 3
    /\ matches[1] = books[1]
    /\ matches[2] = books[3]

(* C5: every search submit sets the page cursor to 1, every show-more      *)
(* click adds exactly 1 to it, and the show-more click right after a       *)
(* search appends the match-set entries BOOKS_PER_PAGE+1..2*BOOKS_PER_PAGE *)
(* of the new match set.                                                   *)
C5_PageCursor ==
    [][/\ event'.type = "search" => page' = 1
       /\ event'.type = "showMore" =>
             /\ page' = page + 1
             /\ event.type = "search" =>
                   /\ page' = 2
                   /\ listItems' = listItems \o event'.newItems
                   /\ Len(event'.newItems) =
                         Max(Min(2 * BOOKS_PER_PAGE, Len(matches'))
                                - BOOKS_PER_PAGE, 0)
                   /\ \A k \in 1..Len(event'.newItems) :
                         event'.newItems[k].preview =
                            matches'[BOOKS_PER_PAGE + k].id]_vars

\* A show-more click on a filtered match set whose second page is not the
\* second page of the dataset.
C5_Witness ==
    /\ event.type = "showMore"
    /\ page = 2
    /\ matches # books
    /\ event.newItems # <<>>
    /\ event.newItems[1].preview = matches[BOOKS_PER_PAGE + 1].id
    /\ event.newItems[1].preview # books[BOOKS_PER_PAGE + 1].id

(* C6: the show-more button is disabled after a search submit iff          *)
(* |match set| <= BOOKS_PER_PAGE, and after a show-more click iff          *)
(* |match set| <= page * BOOKS_PER_PAGE for the incremented page.          *)
C6_ExhaustedFlag ==
    /\ event.type = "search" =>
          (listButton.disabled <=> Len(matches) <= BOOKS_PER_PAGE)
    /\ event.type = "showMore" =>
          (listButton.disabled <=> Len(matches) <= page * BOOKS_PER_PAGE)

\* A show-more click that reveals exactly the rest of the match set.
C6_Witness ==
    /\ event.type = "showMore"
    /\ listButton.disabled
    /\ Len(matches) = page * BOOKS_PER_PAGE

(* C7: the list shows exactly the first min(page * BOOKS_PER_PAGE, |match  *)
(* set|) entries of the match set in order, none skipped or repeated; a    *)
(* show-more click has appended the slice of its page; the remaining count *)
(* shown is max(|match set| - page * BOOKS_PER_PAGE, 0); for 5 matches and *)
(* a page size of 2 the counts are 3, 1, 0 and the last slice has 1 item.  *)
C7_RenderedPrefix ==
    /\ ShowsRange(listItems, 1, Revealed)
    /\ \A k, l \in 1..Len(listItems) :
          listItems[k].preview = listItems[l].preview => k = l
    /\ event.type = "showMore" =>
          ShowsRange(event.newItems, (page - 1) * BOOKS_PER_PAGE + 1, Revealed)
    /\ event.type \in {"search", "showMore"} =>
          listButton.remaining =
             <<Max(Len(matches) - page * BOOKS_PER_PAGE, 0)>>
    /\ (/\ event.type \in {"search", "showMore"}
        /\ BOOKS_PER_PAGE = 2
        /\ Len(matches) = 5) =>
          /\ page \in 1..3
          /\ listButton.remaining = <<CASE page = 1 -> 3
                                        [] page = 2 -> 1
                                        [] page = 3 -> 0>>
          /\ page = 3 => Len(event.newItems) = 1

\* The third page of a five-book match set: one item, nothing remaining.
C7_Witness ==
    /\ event.type = "showMore"
    /\ Len(matches) = 2 * BOOKS_PER_PAGE + 1
    /\ page = 3
    /\ Len(event.newItems) = 1
    /\ Len(listItems) = Len(matches)
    /\ listButton.remaining = <<0>>

(* C8: after every search submit the empty-result message is shown iff     *)
(* the match set is empty, and a search without a match ends with an empty *)
(* list, the show-more button disabled and a remaining count of 0.         *)
C8_EmptyResult ==
    event.type = "search" =>
        /\ listMessageShow <=> Len(matches) = 0
        /\ Len(matches) = 0 =>
              /\ listItems = <<>>
              /\ listButton.disabled
              /\ listButton.remaining = <<0>>

\* No book of a non-empty dataset matches.
C8_Witness ==
    /\ event.type = "search"
    /\ Len(books) = MaxBooks
    /\ matches = <<>>
    /\ listItems = <<>>
    /\ listMessageShow

(* C9: a list click with token x opens the detail overlay and fills it     *)
(* with the image, title, author/year and description of the book of the   *)
(* dataset whose id is x; when no book of the dataset has id x, or there   *)
(* is no token, the overlay's open flag and content stay as they were.     *)
C9_BookClick ==
    [][event'.type = "bookClick" =>
          IF InDataset(event'.active)
          THEN \E i \in 1..Len(books) :
                  /\ books[i].id = event'.active
                  /\ listActive'.open
                  /\ listActive'.blur = books[i].image
                  /\ listActive'.image = books[i].image
                  /\ listActive'.title = books[i].title
                  /\ listActive'.subtitle =
                        <<authors[books[i].author], books[i].published.year>>
                  /\ listActive'.description = books[i].description
          ELSE listActive' = listActive]_vars

\* A click on a book of the dataset that the current match set leaves out.
C9_Witness ==
    /\ event.type = "bookClick"
    /\ InDataset(event.active)
    /\ ~InMatches(event.active)
    /\ listActive.open
    /\ \E i \in 1..Len(books) :
          books[i].id = event.active /\ listActive.title = books[i].title

(* C10: in every reachable state, the one right after initialization       *)
(* included, the show-more button is disabled whenever                     *)
(* |match set| <= page * BOOKS_PER_PAGE.                                   *)
C10_DisabledWhenExhausted ==
    Len(matches) <= page * BOOKS_PER_PAGE => listButton.disabled

(* C11: at startup the theme is night if the dark-mode signal is set and   *)
(* day otherwise; night sets the dark token to "255, 255, 255" and the     *)
(* light token to "10, 10, 20", day sets them the other way round; the two *)
(* tokens are never equal.                                                 *)
C11_StartupThemeAndTokens ==
    /\ event.type = "initialize" =>
          settingsTheme = (IF event.prefersDarkScheme THEN "night" ELSE "day")
    /\ settingsTheme \in Themes
    /\ settingsTheme = "night" =>
          colorDark = "255, 255, 255" /\ colorLight = "10, 10, 20"
    /\ settingsTheme = "day" =>
          colorDark = "10, 10, 20" /\ colorLight = "255, 255, 255"
    /\ colorDark # colorLight

\* Startup with the signal set.
C11_Witness ==
    /\ event.type = "initialize"
    /\ event.prefersDarkScheme
    /\ settingsTheme = "night"
    /\ colorDark = "255, 255, 255"
    /\ colorLight = "10, 10, 20"

(* C16: after initialization and after every settings submit the value of  *)
(* the theme control is the theme whose color tokens are applied: the      *)
(* control is night exactly when the dark token is "255, 255, 255".        *)
C16_ControlMatchesTokens ==
    /\ settingsTheme = "night" <=> colorDark = "255, 255, 255"
    /\ settingsTheme = "night" <=> colorLight = "10, 10, 20"

\* A settings submit whose selection the media query overrides: control and
\* tokens agree on night.
C16_Witness ==
    /\ event.type = "settingsSubmit"
    /\ event.theme = "day"
    /\ settingsTheme = "night"
    /\ colorDark = "255, 255, 255"

\* The detail overlay shows no book: it is closed, or its fields are empty.
ShowsNoBook(detail) ==
    \/ ~detail.open
    \/ /\ detail.title = <<>>
       /\ detail.subtitle = <<>>
       /\ detail.image = ""
       /\ detail.description = ""

MissedClick(e) == e.type = "bookClick" /\ ~InDataset(e.active)

(* C12 as stated: after any list click whose token matches no book id the  *)
(* detail overlay shows no book (it is closed or empty), whatever it       *)
(* showed before the click.                                                *)
C12_MissHidesDetail == MissedClick(event) => ShowsNoBook(listActive)

(* C12 as amended: a list click whose token matches no book id never makes *)
(* the detail overlay show a book: an overlay that showed no book before   *)
(* the click (closed or empty) shows none after it.                        *)
C12_MissNeverShowsBook ==
    [][(MissedClick(event') /\ ShowsNoBook(listActive)) =>
          ShowsNoBook(listActive')]_vars

\* A missed click on an overlay that had been filled and then closed.
C12_Witness ==
    /\ MissedClick(event)
    /\ ~listActive.open
    /\ listActive.title # <<>>

(* C13: a show-more click handled when the match set is already exhausted  *)
(* (|match set| <= page * BOOKS_PER_PAGE) completes: it appends an empty   *)
(* slice, leaves the list and the match set as they were, leaves the       *)
(* button disabled with a remaining count of 0, and although page is       *)
(* incremented the list still holds min(page * BOOKS_PER_PAGE, |match      *)
(* set|) previews.                                                         *)
C13_ShowMoreWhenExhausted ==
    [][(event'.type = "showMore" /\ Len(matches) <= page * BOOKS_PER_PAGE) =>
          /\ event'.newItems = <<>>
          /\ listItems' = listItems
          /\ matches' = matches
          /\ listButton'.disabled
          /\ listButton'.remaining = <<0>>
          /\ page' = page + 1
          /\ Len(listItems') = Min(page' * BOOKS_PER_PAGE, Len(matches'))]_vars

\* The click that the enabled button of a one-page dataset lets through
\* right after startup.
C13_Witness ==
    /\ event.type = "showMore"
    /\ event.newItems = <<>>
    /\ page = 2
    /\ matches # <<>>
    /\ Len(matches) <= BOOKS_PER_PAGE
    /\ Len(listItems) = Len(matches)
    /\ listButton = [disabled |-> TRUE, remaining |-> <<0>>]

(* C14: a show-more click leaves the match set unchanged and only appends  *)
(* to the list; a list click, a settings submit and every overlay open,    *)
(* cancel or close leave the match set, the page cursor, the list and the  *)
(* show-more button unchanged; a search submit and a show-more click leave *)
(* the theme control and the color tokens unchanged.                       *)
C14_FrameConditions ==
    [][/\ event'.type = "showMore" =>
             /\ matches' = matches
             /\ Len(listItems') >= Len(listItems)
             /\ SubSeq(listItems', 1, Len(listItems)) = listItems
       /\ event'.type \in {"bookClick", "settingsSubmit", "searchCancel",
                           "settingsCancel", "headerSearch", "headerSettings",
                           "listClose"} =>
             UNCHANGED <<matches, page, listItems, listButton>>
       /\ event'.type \in {"search", "showMore"} =>
             UNCHANGED <<settingsTheme, colorDark, colorLight>>]_vars

\* A settings submit that found a filtered list on its second page and
\* left it there.
C14_Witness ==
    /\ event.type = "settingsSubmit"
    /\ page = 2
    /\ matches # books
    /\ Len(listItems) > BOOKS_PER_PAGE
    /\ listButton.remaining # <<>>

\* What a search with criteria C shows on dataset bs, as a function of the
\* two alone.
ExpectedMatches(bs, C) == SelectSeq(bs, LAMBDA b : Satisfies(b, C))

ExpectedOutcome(bs, C) ==
    LET m == ExpectedMatches(bs, C)
    IN  [matches   |-> m,
         page      |-> 1,
         listItems |-> [k \in 1..Min(BOOKS_PER_PAGE, Len(m)) |->
                           [preview |-> m[k].id,
                            image   |-> m[k].image,
                            title   |-> m[k].title,
                            author  |-> authors[m[k].author]]],
         disabled  |-> Len(m) <= BOOKS_PER_PAGE,
         remaining |-> <<Max(Len(m) - BOOKS_PER_PAGE, 0)>>,
         message   |-> Len(m) = 0]

(* C15: the match set, page cursor, list, show-more disabled flag,         *)
(* remaining count and empty-message flag after a search submit depend     *)
(* only on the criteria and the dataset: they are the same after any       *)
(* earlier show-more clicks and searches, and submitting the same criteria *)
(* twice in a row changes none of them.                                    *)
C15_SearchOutcomeDependsOnCriteria ==
    [][event'.type = "search" =>
          /\ [matches   |-> matches',
              page      |-> page',
              listItems |-> listItems',
              disabled  |-> listButton'.disabled,
              remaining |-> listButton'.remaining,
              message   |-> listMessageShow']
                = ExpectedOutcome(books', event'.filters)
          /\ (event.type = "search" /\ event.filters = event'.filters) =>
                UNCHANGED <<matches, page, listItems, listButton,
                            listMessageShow>>]_vars

\* A search submitted after a book had been opened, with more than one page
\* of matches.
C15_Witness ==
    /\ event.type = "search"
    /\ listActive.title # <<>>
    /\ matches # books
    /\ Len(matches) > BOOKS_PER_PAGE
    /\ page = 1
    /\ Len(listItems) = BOOKS_PER_PAGE

====
